---- MODULE Spec2Model ----
(***************************************************************************)
(* A model of icon-changer's ICO reader (icon), BMP loader and BMP-to-ICO  *)
(* writer (bitmap) and of the converter icon::from_bmp.                    *)
(*                                                                         *)
(* Files are sequences of bytes (0..255).  Every multi-byte field is laid  *)
(* out as the packed little-endian structs of the source lay it out, and   *)
(* every read of a struct is modelled as the byte copy the code performs.  *)
(***************************************************************************)
EXTENDS Integers, Sequences, FiniteSets, TLC

VARIABLES
    op,               \* the top-level operation being run
    pc,               \* position of the running operation
    fs,               \* the file system: path -> bytes, or Absent
    dest_ok,          \* environment: can the temporary ICO be opened for writing
    input,            \* the parameters the input file was built from (ghost)
    ico_path,         \* the path the icon constructor reads
    pos,              \* read position of the icon constructor's ifstream
    resource_header,  \* icon::resource_header
    entries,          \* the local vector<icon_entry> of the constructor
    next_entry,       \* index of the entry read_images handles next (1-based)
    images,           \* icon::images
    resource_entries, \* icon::resource_entries
    constructed,      \* TRUE once the icon object exists
    header_out,       \* the bytes get_header returned
    bmp,              \* the bitmap object: width, height, bitDepth, pixels
    err,              \* the exception the operation ended with
    icon_id,          \* convert_entries' counter (counter-only run)
    cv_i,             \* entries converted so far (counter-only run)
    cv_n,             \* entries.size() (counter-only run)
    first             \* the icon whose get_header bytes are parsed again

vars == <<op, pc, fs, dest_ok, input, ico_path, pos, resource_header, entries,
          next_entry, images, resource_entries, constructed, header_out, bmp,
          err, icon_id, cv_i, cv_n, first>>

----------------------------------------------------------------------------
(* Bounds of the model *)

MaxEntries == 2

MaxImageSize == 2

MaxWidth == 2

MaxHeight == 2

\* a width that does not fit the 8-bit width of a directory entry
WideWidth == 257

----------------------------------------------------------------------------
(* Byte codec: packed little-endian structs *)

Byte == 0..255

U16LE(v) == <<v % 256, v \div 256>>

U32LE(v) == <<v % 256, (v \div 256) % 256, (v \div 65536) % 256, v \div 16777216>>

\* a 32-bit two's complement value, most significant byte handled apart so
\* that no intermediate value leaves the 32-bit range
I32LE(v) ==
    IF v >= 0 THEN U32LE(v)
    ELSE LET u == v + 2147483647 + 1
         IN  <<u % 256, (u \div 256) % 256, (u \div 65536) % 256, (u \div 16777216) + 128>>

RdU16(b, o) == b[o + 1] + 256 * b[o + 2]

RdU32(b, o) == b[o + 1] + 256 * b[o + 2] + 65536 * b[o + 3] + 16777216 * b[o + 4]

RdI32(b, o) ==
    b[o + 1] + 256 * b[o + 2] + 65536 * b[o + 3]
      + 16777216 * (IF b[o + 4] >= 128 THEN b[o + 4] - 256 ELSE b[o + 4])

Take(s, n) == IF n >= Len(s) THEN s ELSE SubSeq(s, 1, n)

Slice(s, from, n) == SubSeq(s, from + 1, from + n)

RECURSIVE Flatten(_)
Flatten(ss) == IF ss = <<>> THEN <<>> ELSE Head(ss) \o Flatten(Tail(ss))

RECURSIVE SumSeq(_)
SumSeq(s) == IF s = <<>> THEN 0 ELSE Head(s) + SumSeq(Tail(s))

Zeros(n) == [i \in 1..n |-> 0]

\* sizes of the packed structs
HeaderSize == 6

IconEntrySize == 16

EntrySize == 14

\* struct header (ICONDIR / NEWHEADER)
EncodeHeader(h) == U16LE(h.reserved) \o U16LE(h.type) \o U16LE(h.entries_count)

DecodeHeader(b, o) ==
    [reserved      |-> RdU16(b, o),
     type          |-> RdU16(b, o + 2),
     entries_count |-> RdU16(b, o + 4)]

\* struct icon_entry (ICONDIRENTRY)
EncodeIconEntry(e) ==
    <<e.width, e.height, e.color_count, e.reserved>>
      \o U16LE(e.planes) \o U16LE(e.bit_count)
      \o U32LE(e.image_size) \o U32LE(e.image_offset)

DecodeIconEntry(b, o) ==
    [width        |-> b[o + 1],
     height       |-> b[o + 2],
     color_count  |-> b[o + 3],
     reserved     |-> b[o + 4],
     planes       |-> RdU16(b, o + 4),
     bit_count    |-> RdU16(b, o + 6),
     image_size   |-> RdU32(b, o + 8),
     image_offset |-> RdU32(b, o + 12)]

\* struct entry without PACKED: two bytes of padding end the record
SerializeEntryPadded(e) ==
    <<e.width, e.height, e.color_count, e.reserved>>
      \o U16LE(e.planes) \o U16LE(e.bit_count)
      \o U32LE(e.resource_size) \o U16LE(e.icon_id) \o <<0, 0>>

\* struct entry (RESDIR), as serialize(const entry&) copies it out
SerializeEntry(e) ==
    <<e.width, e.height, e.color_count, e.reserved>>
      \o U16LE(e.planes) \o U16LE(e.bit_count)
      \o U32LE(e.resource_size) \o U16LE(e.icon_id)

\* struct entry (RESDIR) read back from its bytes
DecodeEntry(b, o) ==
    [width         |-> b[o + 1],
     height        |-> b[o + 2],
     color_count   |-> b[o + 3],
     reserved      |-> b[o + 4],
     planes        |-> RdU16(b, o + 4),
     bit_count     |-> RdU16(b, o + 6),
     resource_size |-> RdU32(b, o + 8),
     icon_id       |-> RdU16(b, o + 12)]

\* the header fields written most significant byte first
SerializeHeaderBigEndian(h) ==
    <<h.reserved \div 256, h.reserved % 256, h.type \div 256, h.type % 256,
      h.entries_count \div 256, h.entries_count % 256>>

SerializeHeader(h) == EncodeHeader(h)

----------------------------------------------------------------------------
(* Errors *)

NoErr == [class |-> "none", what |-> "none", actual |-> 0]

Error(c, w, a) == [class |-> c, what |-> w, actual |-> a]

InvalidArgument(w, a) == Error("invalid_argument", w, a)

RuntimeError(w) == Error("runtime_error", w, 0)

----------------------------------------------------------------------------
(* The file system and the input files *)

IcoPath == "app.ico"

BmpPath == "app.bmp"

TempIcoPath == "app.bmp.temp.ico"

OtherPath == "other.dat"

OutPath == "out.ico"

HeaderPath == "header.bin"

Paths == {IcoPath, BmpPath, TempIcoPath, OutPath, OtherPath, HeaderPath}

\* the content of a path that names no file
Absent == <<-1>>

OtherBytes == <<79, 84, 72>>

StaleBytes == <<83, 84>>

Defects == {"none", "reserved", "planes", "both"}

\* directory entry i of an input file; every field of every entry differs
MkIconEntry(i, defect, size, offset) ==
    [width        |-> 16 * i,
     height       |-> 16 * i + 1,
     color_count  |-> i,
     reserved     |-> IF defect \in {"reserved", "both"} THEN 255 ELSE 0,
     planes       |-> IF defect \in {"planes", "both"} THEN 513 ELSE i % 2,
     bit_count    |-> 8 * i,
     image_size   |-> size,
     image_offset |-> offset]

\* the payload of entry i: bytes no other entry holds
Payload(i, size) == [j \in 1..size |-> 16 * i + j]

\* where the payload of entry i starts in a contiguous file
PayloadStart(n, sizes, i) ==
    HeaderSize + IconEntrySize * n + SumSeq([j \in 1..(i - 1) |-> sizes[j]])

MkIconEntries(n, defects, sizes, offs) ==
    [i \in 1..n |->
        MkIconEntry(i, defects[i], sizes[i],
                    IF offs THEN PayloadStart(n, sizes, i) ELSE 7 * i)]

IcoFile(hdr, ents) ==
    EncodeHeader(hdr)
      \o Flatten([i \in 1..Len(ents) |-> EncodeIconEntry(ents[i])])
      \o Flatten([i \in 1..Len(ents) |-> Payload(i, ents[i].image_size)])

HeaderChoices(n) ==
    [reserved : {0, 258}, type : {0, 1, 2, 65535}, entries_count : {0, n}]

GoodHeader(hdr) == hdr.reserved = 0 /\ hdr.type = 1 /\ hdr.entries_count # 0

\* the inputs explored: every truncation of every layout of sizes, every
\* combination of entry defects, and every header defect
InputShape(hdr, n, defects, sizes, offs) ==
    LET clean   == \A i \in 1..n : defects[i] = "none"
        allbad  == \A i \in 1..n : defects[i] = "both"
        unit    == \A i \in 1..n : sizes[i] = 1
    IN  IF GoodHeader(hdr)
        THEN clean \/ (unit /\ offs)
        ELSE unit /\ offs /\ (clean \/ allbad)

Cuts(n, L) ==
    {c \in {0, 2, 5, 6, 7, 6 + 16 * n - 1} : c <= L} \cup (6 + 16 * n)..L

----------------------------------------------------------------------------
(* icon: the constructor, get_header *)

ZeroHeader == [reserved |-> 0, type |-> 0, entries_count |-> 0]

NoBitmap == [width |-> 0, height |-> 0, bitDepth |-> 0, pixels |-> <<>>]

\* istream::read of n bytes at pos into memory holding buf: the bytes the
\* file still has are copied, the rest of buf keeps what it held
ReadBytes(file, at, n, buf) ==
    LET k == IF Len(file) - at >= n THEN n
             ELSE IF Len(file) > at THEN Len(file) - at ELSE 0
    IN  [i \in 1..n |-> IF i <= k THEN file[at + i] ELSE buf[i]]

Available(file, at) == IF Len(file) > at THEN Len(file) - at ELSE 0

\* a stream whose exceptions were never switched on: no read throws
ShortReadSilent(file, at, n) == FALSE

\* open_file sets failbit and badbit to throw: a read that gets fewer than n
\* bytes throws std::ios_base::failure
ShortRead(file, at, n) == Available(file, at) < n

\* the exception leaves the constructor: no icon object exists; inside
\* from_bmp the catch block runs next
CtorThrow(e) ==
    /\ err' = e
    /\ constructed' = FALSE
    /\ pc' = IF op = "from_bmp" THEN "fb_catch" ELSE "failed"

IconOpenFile ==
    /\ pc = "ico_open"
    /\ IF fs[ico_path] = Absent
       THEN /\ CtorThrow(InvalidArgument("SourceUnavailable", 0))
            /\ UNCHANGED pos
       ELSE /\ pos' = 0
            /\ pc' = "read_header"
            /\ UNCHANGED <<err, constructed>>
    /\ UNCHANGED <<op, first, fs, dest_ok, input, ico_path, resource_header, entries,
                   next_entry, images, resource_entries, header_out, bmp,
                   icon_id, cv_i, cv_n>>

U16Max == 65535

ICO_IMAGE_TYPE == 1

CUR_IMAGE_TYPE == 2

\* read_header with the type checks made before the reserved check
HeaderCheckTypeFirst(h) ==
    IF h.type = CUR_IMAGE_TYPE THEN InvalidArgument("WrongContainerType", 0)
    ELSE IF h.type # ICO_IMAGE_TYPE THEN InvalidArgument("InvalidContainerType", h.type)
    ELSE IF h.reserved # 0 THEN InvalidArgument("InvalidHeaderReserved", h.reserved)
    ELSE IF h.entries_count = 0 THEN InvalidArgument("NoImageEntries", 0)
    ELSE NoErr

\* the validation of read_header: the first failing check, or NoErr
HeaderCheck(h) ==
    IF h.reserved # 0 THEN InvalidArgument("InvalidHeaderReserved", h.reserved)
    ELSE IF h.type = CUR_IMAGE_TYPE THEN InvalidArgument("WrongContainerType", 0)
    ELSE IF h.type # ICO_IMAGE_TYPE THEN InvalidArgument("InvalidContainerType", h.type)
    ELSE IF h.entries_count = 0 THEN InvalidArgument("NoImageEntries", 0)
    ELSE NoErr

ReadHeader ==
    /\ pc = "read_header"
    /\ LET file == fs[ico_path]
           mem  == ReadBytes(file, pos, HeaderSize, SerializeHeader(resource_header))
           h    == DecodeHeader(mem, 0)
       IN  /\ resource_header' = h
           /\ IF ShortRead(file, pos, HeaderSize)
              THEN /\ CtorThrow(RuntimeError("TruncatedHeader"))
                   /\ pos' = pos + Available(file, pos)
              ELSE /\ pos' = pos + HeaderSize
                   /\ IF HeaderCheck(h) # NoErr
                      THEN CtorThrow(HeaderCheck(h))
                      ELSE /\ pc' = "read_entries"
                           /\ UNCHANGED <<err, constructed>>
    /\ UNCHANGED <<op, first, fs, dest_ok, input, ico_path, entries, next_entry,
                   images, resource_entries, header_out, bmp, icon_id, cv_i, cv_n>>

ReadIconEntries ==
    /\ pc = "read_entries"
    /\ LET file == fs[ico_path]
           n    == resource_header.entries_count
           need == n * IconEntrySize
           mem  == ReadBytes(file, pos, need, Zeros(need))
       IN  IF ShortRead(file, pos, need)
           THEN /\ CtorThrow(RuntimeError("TruncatedEntryTable"))
                /\ pos' = pos + Available(file, pos)
                /\ UNCHANGED <<entries, next_entry>>
           ELSE /\ entries' = [i \in 1..n |->
                                  DecodeIconEntry(mem, IconEntrySize * (i - 1))]
                /\ pos' = pos + need
                /\ next_entry' = 1
                /\ pc' = "read_images"
                /\ UNCHANGED <<err, constructed>>
    /\ UNCHANGED <<op, first, fs, dest_ok, input, ico_path, resource_header, images,
                   resource_entries, header_out, bmp, icon_id, cv_i, cv_n>>

\* the two field checks read_images makes on an entry before it reads
EntryCheck(e) ==
    IF e.reserved # 0 THEN InvalidArgument("InvalidEntryReserved", e.reserved)
    ELSE IF e.planes # 0 /\ e.planes # 1 THEN InvalidArgument("InvalidEntryPlanes", e.planes)
    ELSE NoErr

\* read_images validating every entry still to come before it reads a payload
RECURSIVE EntryCheckAhead(_, _)
EntryCheckAhead(ents, k) ==
    IF k > Len(ents) THEN NoErr
    ELSE IF EntryCheck(ents[k]) # NoErr THEN EntryCheck(ents[k])
    ELSE EntryCheckAhead(ents, k + 1)

\* the checks read_images makes when its loop reaches entry k
EntryCheckAt(ents, k) == EntryCheck(ents[k])

\* read_images seeking to the offset the entry stores
ImageStartAtOffset(e, at) == e.image_offset

\* where read_images takes the payload of an entry from: the stream is
\* never positioned, the read goes on where the last one ended
ImageStart(e, at) == at

\* one iteration of the loop of read_images
ReadImage ==
    /\ pc = "read_images"
    /\ next_entry <= Len(entries)
    /\ LET file == fs[ico_path]
           e    == entries[next_entry]
           from == ImageStart(e, pos)
       IN  IF EntryCheckAt(entries, next_entry) # NoErr
           THEN /\ CtorThrow(EntryCheckAt(entries, next_entry))
                /\ UNCHANGED <<pos, images, next_entry>>
           ELSE IF ShortRead(file, from, e.image_size)
           THEN /\ CtorThrow(RuntimeError("TruncatedImageData"))
                /\ pos' = from + Available(file, from)
                /\ UNCHANGED <<images, next_entry>>
           ELSE /\ images' = Append(images, ReadBytes(file, from, e.image_size,
                                                       Zeros(e.image_size)))
                /\ pos' = from + e.image_size
                /\ next_entry' = next_entry + 1
                /\ UNCHANGED <<pc, err, constructed>>
    /\ UNCHANGED <<op, first, fs, dest_ok, input, ico_path, resource_header, entries,
                   resource_entries, header_out, bmp, icon_id, cv_i, cv_n>>

\* ++icon_id on a std::uint8_t
NextIconIdU8(id) == (id + 1) % 256

\* ++icon_id on a std::uint16_t
NextIconId(id) == (id + 1) % (U16Max + 1)

ConvertEntry(e, id) ==
    [width         |-> e.width,
     height        |-> e.height,
     color_count   |-> e.color_count,
     reserved      |-> e.reserved,
     planes        |-> e.planes,
     bit_count     |-> e.bit_count,
     resource_size |-> e.image_size,
     icon_id       |-> id]

RECURSIVE ConvertFrom(_, _)
ConvertFrom(ents, id) ==
    IF ents = <<>> THEN <<>>
    ELSE <<ConvertEntry(Head(ents), NextIconId(id))>>
           \o ConvertFrom(Tail(ents), NextIconId(id))

\* read_images has left its loop; convert_entries runs and the constructor
\* returns
ConvertEntries ==
    /\ pc = "read_images"
    /\ next_entry > Len(entries)
    /\ resource_entries' = resource_entries \o ConvertFrom(entries, 0)
    /\ constructed' = TRUE
    /\ pc' = IF op = "from_bmp" THEN "fb_cleanup" ELSE "loaded"
    /\ UNCHANGED <<op, first, fs, dest_ok, input, ico_path, pos, resource_header, entries,
                   next_entry, images, header_out, bmp, err, icon_id, cv_i, cv_n>>

\* the loop of convert_entries with the entries' fields left out: only the
\* 16-bit counter and the number of entries pushed
CountEntry ==
    /\ pc = "counting"
    /\ cv_i < cv_n
    /\ icon_id' = NextIconId(icon_id)
    /\ cv_i' = cv_i + 1
    /\ pc' = IF cv_i + 1 = cv_n THEN "counted" ELSE "counting"
    /\ UNCHANGED <<op, first, fs, dest_ok, input, ico_path, pos, resource_header, entries,
                   next_entry, images, resource_entries, constructed, header_out,
                   bmp, err, cv_n>>

GetHeaderBytes(h, res) ==
    SerializeHeader(h) \o Flatten([i \in 1..Len(res) |-> SerializeEntry(res[i])])

GetHeader ==
    /\ pc = "loaded"
    /\ header_out' = GetHeaderBytes(resource_header, resource_entries)
    /\ pc' = "serialized"
    /\ UNCHANGED <<op, first, fs, dest_ok, input, ico_path, pos, resource_header, entries,
                   next_entry, images, resource_entries, constructed, bmp, err,
                   icon_id, cv_i, cv_n>>

----------------------------------------------------------------------------
(* bitmap: loadFromImage, saveToIco *)

FileHeaderSize == 14

InfoHeaderSize == 40

BM == 19778

\* int division of C++: the quotient is truncated towards zero
CDiv(a, b) == IF a >= 0 THEN a \div b ELSE -((-a) \div b)

\* A std::size_t is kept as the integer it is congruent to modulo 2^64 with
\* the least magnitude: a negative int converted to std::size_t stays the
\* same negative number here and stands for 2^64 minus its magnitude, which
\* no vector can hold.
TooLong(n) == n < 0

LengthError == Error("length_error", "vector::resize", 0)

\* vector::resize: what is kept is kept, what is new is zero
Resize(v, n) == [i \in 1..n |-> IF i <= Len(v) THEN v[i] ELSE 0]

\* std::copy_n(row.data(), n, &pixels[at])
CopyInto(pixels, at, row, n) ==
    [i \in 1..Len(pixels) |->
        IF i > at /\ i <= at + n THEN row[i - at] ELSE pixels[i]]

\* the row of the pixel buffer that on-disk row y is copied to
DestRow(topDown, height, y) == IF topDown THEN y ELSE height - 1 - y

\* one file.read on a stream whose exceptions are off: a read on a failed
\* stream does nothing, a short read copies what is left and fails the stream
StreamRead(file, st, n, buf) ==
    IF st.fail THEN [pos |-> st.pos, fail |-> TRUE, buf |-> buf]
    ELSE [pos  |-> st.pos + (IF Available(file, st.pos) < n
                             THEN Available(file, st.pos) ELSE n),
          fail |-> Available(file, st.pos) < n,
          buf  |-> ReadBytes(file, st.pos, n, buf)]

\* the loop over the rows, from row y on
RECURSIVE LoadRows(_, _, _, _, _, _, _, _)
LoadRows(file, y, height, topDown, paddedRowSize, rawRowSize, st, pixels) ==
    IF y >= height THEN pixels
    ELSE LET rd == StreamRead(file, st, paddedRowSize, st.buf)
         IN  LoadRows(file, y + 1, height, topDown, paddedRowSize, rawRowSize, rd,
                      CopyInto(pixels, DestRow(topDown, height, y) * rawRowSize,
                               rd.buf, rawRowSize))

\* the two header tests the other way round
BmpHeaderCheckCompressionFirst(bfType, biCompression) ==
    IF biCompression # 0 THEN RuntimeError("UnsupportedCompression")
    ELSE IF bfType # BM THEN RuntimeError("NotABitmap")
    ELSE NoErr

\* the tests on the two headers, in the order of the code: the exception
\* thrown, if any
BmpHeaderCheck(bfType, biCompression) ==
    IF bfType # BM THEN RuntimeError("NotABitmap")
    ELSE IF biCompression # 0 THEN RuntimeError("UnsupportedCompression")
    ELSE NoErr

\* the height loadFromImage stores for a biHeight
StoredHeight(biHeight) == biHeight

\* loadFromImage on the bitmap object b: the exception thrown, if any, and
\* the object afterwards
LoadFromImage(file, b) ==
    IF file = Absent
    THEN [err |-> InvalidArgument("SourceUnavailable", 0), ret |-> FALSE, bmp |-> b]
    ELSE
    LET fh == StreamRead(file, [pos |-> 0, fail |-> FALSE], FileHeaderSize,
                         Zeros(FileHeaderSize))
        ih == StreamRead(file, fh, InfoHeaderSize, Zeros(InfoHeaderSize))
        bfType        == RdU16(fh.buf, 0)
        bfOffBits     == RdU32(fh.buf, 10)
        biWidth       == RdI32(ih.buf, 4)
        biHeight      == RdI32(ih.buf, 8)
        biBitCount    == RdU16(ih.buf, 14)
        biCompression == RdU32(ih.buf, 16)
        width         == biWidth
        height        == StoredHeight(biHeight)
        bitDepth      == biBitCount
        topDown       == biHeight < 0
        bytesPerPixel == bitDepth \div 8
        paddedRowSize == CDiv(bitDepth * width + 31, 32) * 4
        rawRowSize    == width * bytesPerPixel
        size          == width * height * bytesPerPixel
        set           == [width |-> width, height |-> height,
                          bitDepth |-> bitDepth, pixels |-> b.pixels]
        sought        == IF ih.fail THEN [pos |-> ih.pos, fail |-> TRUE]
                         ELSE [pos |-> bfOffBits, fail |-> FALSE]
    IN  IF BmpHeaderCheck(bfType, biCompression) # NoErr
        THEN [err |-> BmpHeaderCheck(bfType, biCompression), ret |-> FALSE, bmp |-> b]
        ELSE IF TooLong(size)
        THEN [err |-> LengthError, ret |-> FALSE, bmp |-> set]
        ELSE IF TooLong(paddedRowSize)
        THEN [err |-> LengthError, ret |-> FALSE,
              bmp |-> [set EXCEPT !.pixels = Resize(b.pixels, size)]]
        ELSE [err |-> NoErr, ret |-> TRUE,
              bmp |-> [set EXCEPT !.pixels =
                         LoadRows(file, 0, height, topDown, paddedRowSize, rawRowSize,
                                  [pos |-> sought.pos, fail |-> sought.fail,
                                   buf |-> Zeros(paddedRowSize)],
                                  Resize(b.pixels, size))]]

\* the pixel rows in buffer order, first row first
IcoPixelRowsTopFirst(pixels, width, y) ==
    [k \in 1..(4 * width * (y + 1)) |->
        IF (k - 1) % 4 = 3 THEN 255 ELSE pixels[((k - 1) \div 4) * 3 + ((k - 1) % 4) + 1]]

\* the pixel rows saveToIco emits: buffer rows from the last to the first,
\* each BGR pixel followed by an alpha of 255
RECURSIVE IcoPixelRows(_, _, _)
IcoPixelRows(pixels, width, y) ==
    IF y < 0 THEN <<>>
    ELSE [k \in 1..(4 * width) |->
            LET x == (k - 1) \div 4
                c == (k - 1) % 4
            IN  IF c = 3 THEN 255 ELSE pixels[(y * width + x) * 3 + c + 1]]
           \o IcoPixelRows(pixels, width, y - 1)

\* static_cast<std::uint8_t>(int)
ToU8(v) == v % 256

\* dwBytesInRes without the info header that precedes the pixel data
BytesInResDataOnly(imageSize, maskSize) == imageSize + maskSize

\* dwBytesInRes of the directory entry saveToIco writes
BytesInRes(imageSize, maskSize) == InfoHeaderSize + imageSize + maskSize

\* the bytes saveToIco writes for the bitmap b
IcoBytes(b) ==
    LET imageSize == b.width * b.height * 4
        maskSize  == ((b.width + 31) \div 32) * 4 * b.height
    IN  U16LE(0) \o U16LE(1) \o U16LE(1)
          \o <<ToU8(b.width), ToU8(b.height), 0, 0>>
          \o U16LE(1) \o U16LE(32)
          \o U32LE(BytesInRes(imageSize, maskSize))
          \o U32LE(HeaderSize + IconEntrySize)
          \o U32LE(InfoHeaderSize) \o I32LE(b.width) \o I32LE(b.height * 2)
          \o U16LE(1) \o U16LE(32) \o U32LE(0) \o U32LE(imageSize)
          \o I32LE(0) \o I32LE(0) \o U32LE(0) \o U32LE(0)
          \o IcoPixelRows(b.pixels, b.width, b.height - 1)
          \o Zeros(maskSize)

\* a writer that opens its destination first and looks at the bitmap after
SaveToIcoOpenFirst(b, path, files, openable) ==
    IF ~openable
    THEN [err |-> RuntimeError("DestinationUnavailable"), ret |-> FALSE, fs |-> files]
    ELSE IF b.width <= 0 \/ b.height <= 0 \/ b.bitDepth # 24
    THEN [err |-> RuntimeError("UnsupportedBitmapFormat"), ret |-> FALSE,
          fs |-> [files EXCEPT ![path] = <<>>]]
    ELSE [err |-> NoErr, ret |-> TRUE, fs |-> [files EXCEPT ![path] = IcoBytes(b)]]

\* saveToIco(path): the exception thrown, if any, and the files afterwards
SaveToIco(b, path, files, openable) ==
    IF b.width <= 0 \/ b.height <= 0 \/ b.bitDepth # 24
    THEN [err |-> RuntimeError("UnsupportedBitmapFormat"), ret |-> FALSE, fs |-> files]
    ELSE IF ~openable
    THEN [err |-> RuntimeError("DestinationUnavailable"), ret |-> FALSE, fs |-> files]
    ELSE [err |-> NoErr, ret |-> TRUE, fs |-> [files EXCEPT ![path] = IcoBytes(b)]]

\* bitmap bmp; bmp.loadFromImage("app.bmp")
BitmapLoad ==
    /\ pc = "bmp_load"
    /\ LET r == LoadFromImage(fs[BmpPath], bmp)
       IN  /\ bmp' = r.bmp
           /\ err' = r.err
           /\ pc' = IF r.err # NoErr THEN "failed" ELSE "bmp_save"
    /\ UNCHANGED <<op, first, fs, dest_ok, input, ico_path, pos, resource_header, entries,
                   next_entry, images, resource_entries, constructed, header_out,
                   icon_id, cv_i, cv_n>>

\* bmp.saveToIco("out.ico")
BitmapSave ==
    /\ pc = "bmp_save"
    /\ LET r == SaveToIco(bmp, OutPath, fs, dest_ok)
       IN  /\ fs' = r.fs
           /\ err' = r.err
           /\ pc' = IF r.err # NoErr THEN "failed" ELSE "bmp_saved"
    /\ UNCHANGED <<op, first, dest_ok, input, ico_path, pos, resource_header, entries,
                   next_entry, images, resource_entries, constructed, header_out,
                   bmp, icon_id, cv_i, cv_n>>

----------------------------------------------------------------------------
(* icon::from_bmp *)

\* a path that is left alone
RemoveNothing(files, path) == files

\* the clean-up given the path of the source
RemoveSource(files, path) == [files EXCEPT ![BmpPath] = Absent]

\* std::filesystem::remove
Remove(files, path) == [files EXCEPT ![path] = Absent]

\* bitmap bmp; bmp.loadFromImage(bmp_path): an exception of the load leaves
\* from_bmp before the try block is entered
FromBmpLoad ==
    /\ pc = "fb_load"
    /\ LET r == LoadFromImage(fs[BmpPath], NoBitmap)
       IN  /\ bmp' = r.bmp
           /\ IF r.err # NoErr
              THEN err' = r.err /\ pc' = "failed"
              ELSE IF ~r.ret
              THEN err' = RuntimeError("FailedToLoadBmp") /\ pc' = "failed"
              ELSE err' = NoErr /\ pc' = "fb_save"
    /\ UNCHANGED <<op, first, fs, dest_ok, input, ico_path, pos, resource_header, entries,
                   next_entry, images, resource_entries, constructed, header_out,
                   icon_id, cv_i, cv_n>>

\* bmp.saveToIco(temp_ico_path) inside the try block; then icon ico{ temp }
FromBmpSave ==
    /\ pc = "fb_save"
    /\ LET r == SaveToIco(bmp, TempIcoPath, fs, dest_ok)
       IN  /\ fs' = r.fs
           /\ IF r.err # NoErr
              THEN err' = r.err /\ pc' = "fb_catch"
              ELSE IF ~r.ret
              THEN err' = RuntimeError("FailedToSaveIco") /\ pc' = "fb_catch"
              ELSE err' = NoErr /\ pc' = "ico_open"
    /\ ico_path' = TempIcoPath
    /\ UNCHANGED <<op, first, dest_ok, input, pos, resource_header, entries, next_entry,
                   images, resource_entries, constructed, header_out, bmp,
                   icon_id, cv_i, cv_n>>

\* catch (...) { remove(temp_ico_path); throw; }
FromBmpCatch ==
    /\ pc = "fb_catch"
    /\ fs' = Remove(fs, TempIcoPath)
    /\ pc' = "failed"
    /\ UNCHANGED <<op, first, dest_ok, input, ico_path, pos, resource_header, entries,
                   next_entry, images, resource_entries, constructed, header_out,
                   bmp, err, icon_id, cv_i, cv_n>>

\* remove(temp_ico_path); return ico;
FromBmpCleanup ==
    /\ pc = "fb_cleanup"
    /\ fs' = Remove(fs, TempIcoPath)
    /\ pc' = "loaded"
    /\ UNCHANGED <<op, first, dest_ok, input, ico_path, pos, resource_header, entries,
                   next_entry, images, resource_entries, constructed, header_out,
                   bmp, err, icon_id, cv_i, cv_n>>

\* icon again{ "header.bin" } on a file that holds the bytes get_header
\* returned for the icon from_bmp produced
Reparse ==
    /\ op = "from_bmp"
    /\ pc = "serialized"
    /\ op' = "reparse"
    /\ first' = [header |-> resource_header, entries |-> resource_entries]
    /\ fs' = [fs EXCEPT ![HeaderPath] = header_out]
    /\ ico_path' = HeaderPath
    /\ pos' = 0
    /\ resource_header' = ZeroHeader
    /\ entries' = <<>>
    /\ next_entry' = 1
    /\ images' = <<>>
    /\ resource_entries' = <<>>
    /\ constructed' = FALSE
    /\ pc' = "ico_open"
    /\ UNCHANGED <<dest_ok, input, header_out, bmp, err, icon_id, cv_i, cv_n>>

\* the BMP files explored ----------------------------------------------

\* the byte at column j (0-based) of on-disk row d (0-based)
DiskByte(d, j) == (37 * d + j + 1) % 251

PaddedRowSize(bitCount, w) == CDiv(bitCount * w + 31, 32) * 4

Abs(v) == IF v < 0 THEN -v ELSE v

DiskRows(p) ==
    IF p.biWidth <= 0 THEN <<>>
    ELSE LET padded == PaddedRowSize(p.biBitCount, p.biWidth)
         IN  [k \in 1..(Abs(p.biHeight) * padded) |->
                DiskByte((k - 1) \div padded, (k - 1) % padded)]

BmpFile(p) ==
    U16LE(p.bfType) \o U32LE(FileHeaderSize + InfoHeaderSize + Len(DiskRows(p)))
      \o U16LE(0) \o U16LE(0) \o U32LE(FileHeaderSize + InfoHeaderSize)
      \o U32LE(InfoHeaderSize) \o I32LE(p.biWidth) \o I32LE(p.biHeight)
      \o U16LE(1) \o U16LE(p.biBitCount) \o U32LE(p.biCompression)
      \o U32LE(Len(DiskRows(p))) \o I32LE(2835) \o I32LE(2835)
      \o U32LE(0) \o U32LE(0)
      \o DiskRows(p)

\* truncations at the field boundaries of the headers and everywhere in the
\* pixel data
BmpCuts(L) == {0, 1, 2, 14, 18, 22, 26, 30, 34} \cup (FileHeaderSize + InfoHeaderSize)..L

BmpParams ==
    [bfType : {BM, BM + 1}, biWidth : (-1)..MaxWidth,
     biHeight : {h \in (-MaxHeight)..MaxHeight : h # 0},
     biBitCount : {24, 32}, biCompression : {0, 1}]

WideParams ==
    [bfType |-> BM, biWidth |-> WideWidth, biHeight |-> 1, biBitCount |-> 24,
     biCompression |-> 0]

----------------------------------------------------------------------------
(* Initial states *)

\* no icon has been kept for a second parse
NoIcon == [header |-> ZeroHeader, entries |-> <<>>]

IdleIcon ==
    /\ first = NoIcon
    /\ ico_path = IcoPath
    /\ pos = 0
    /\ resource_header = ZeroHeader
    /\ entries = <<>>
    /\ next_entry = 1
    /\ images = <<>>
    /\ resource_entries = <<>>
    /\ constructed = FALSE
    /\ header_out = <<>>
    /\ err = NoErr

IdleCounter == icon_id = 0 /\ cv_i = 0 /\ cv_n = 0

NoFiles == [p \in Paths |-> IF p = OtherPath THEN OtherBytes ELSE Absent]

\* icon{ "app.ico" } on a file built from the input parameters
InitIcon ==
    /\ op = "icon"
    /\ pc = "ico_open"
    /\ dest_ok = TRUE
    /\ bmp = NoBitmap
    /\ IdleIcon
    /\ IdleCounter
    /\ \E n \in 1..MaxEntries :
         \E hdr \in HeaderChoices(n), defects \in [1..n -> Defects],
            sizes \in [1..n -> 0..MaxImageSize], offs \in BOOLEAN :
           /\ InputShape(hdr, n, defects, sizes, offs)
           /\ LET ents == MkIconEntries(n, defects, sizes, offs)
                  full == IcoFile(hdr, ents)
              IN  \E cut \in Cuts(n, Len(full)) :
                    /\ input = [kind |-> "ico", hdr |-> hdr, ents |-> ents,
                                full |-> full, cut |-> cut]
                    /\ fs = [NoFiles EXCEPT ![IcoPath] = Take(full, cut)]

\* icon{ "app.ico" } when there is no such file
InitIconMissing ==
    /\ op = "icon"
    /\ pc = "ico_open"
    /\ dest_ok = TRUE
    /\ bmp = NoBitmap
    /\ IdleIcon
    /\ IdleCounter
    /\ input = [kind |-> "missing"]
    /\ fs = NoFiles

\* convert_entries' counter over the longest entry table a header can declare
InitCounter ==
    /\ op = "ids"
    /\ pc = "counting"
    /\ dest_ok = TRUE
    /\ bmp = NoBitmap
    /\ IdleIcon
    /\ icon_id = 0
    /\ cv_i = 0
    /\ cv_n \in {1, U16Max}
    /\ input = [kind |-> "ids"]
    /\ fs = NoFiles

\* a bitmap object that an earlier load has filled
PriorBitmap == [width |-> 1, height |-> 1, bitDepth |-> 24, pixels |-> <<9, 8, 7>>]

\* bmp.loadFromImage("app.bmp"); bmp.saveToIco("out.ico") on a bitmap object
\* as constructed or used before, with or without a file already at the
\* destination
InitBitmap ==
    /\ op = "bitmap"
    /\ pc = "bmp_load"
    /\ IdleIcon
    /\ IdleCounter
    /\ dest_ok \in BOOLEAN
    /\ \E stale \in {Absent, StaleBytes}, prior \in {NoBitmap, PriorBitmap} :
         /\ bmp = prior
         /\ \/ \E p \in BmpParams :
                 \E cut \in BmpCuts(Len(BmpFile(p))) :
                    /\ input = [kind |-> "bmp", p |-> p, full |-> BmpFile(p),
                                cut |-> cut, stale |-> stale, prior |-> prior]
                    /\ fs = [NoFiles EXCEPT ![BmpPath] = Take(BmpFile(p), cut),
                                            ![OutPath] = stale]
            \/ /\ input = [kind |-> "missing", stale |-> stale, prior |-> prior]
               /\ fs = [NoFiles EXCEPT ![OutPath] = stale]

\* bitmap bmp; bmp.saveToIco("out.ico") on the object as constructed
InitBitmapNew ==
    /\ op = "bitmap"
    /\ pc = "bmp_save"
    /\ bmp = NoBitmap
    /\ IdleIcon
    /\ IdleCounter
    /\ dest_ok \in BOOLEAN
    /\ \E stale \in {Absent, StaleBytes} :
         /\ input = [kind |-> "new", stale |-> stale]
         /\ fs = [NoFiles EXCEPT ![OutPath] = stale]

\* icon::from_bmp("app.bmp"), with or without a file already at the temporary
\* path
InitFromBmp ==
    /\ op = "from_bmp"
    /\ pc = "fb_load"
    /\ bmp = NoBitmap
    /\ IdleIcon
    /\ IdleCounter
    /\ dest_ok \in BOOLEAN
    /\ \E stale \in {Absent, StaleBytes} :
         \/ \E p \in BmpParams \cup {WideParams} :
              \E cut \in (IF p = WideParams THEN {Len(BmpFile(p))}
                          ELSE BmpCuts(Len(BmpFile(p)))) :
                 /\ input = [kind |-> "bmp", p |-> p, full |-> BmpFile(p), cut |-> cut,
                             stale |-> stale]
                 /\ fs = [NoFiles EXCEPT ![BmpPath] = Take(BmpFile(p), cut),
                                         ![TempIcoPath] = stale]
         \/ /\ input = [kind |-> "nobmp", stale |-> stale]
            /\ fs = [NoFiles EXCEPT ![TempIcoPath] = stale]

Init ==
    \/ InitIcon
    \/ InitIconMissing
    \/ InitCounter
    \/ InitBitmap
    \/ InitBitmapNew
    \/ InitFromBmp

Next ==
    \/ IconOpenFile
    \/ ReadHeader
    \/ ReadIconEntries
    \/ ReadImage
    \/ ConvertEntries
    \/ GetHeader
    \/ CountEntry
    \/ BitmapLoad
    \/ BitmapSave
    \/ FromBmpLoad
    \/ FromBmpSave
    \/ FromBmpCatch
    \/ FromBmpCleanup
    \/ Reparse

Spec == Init /\ [][Next]_vars

----------------------------------------------------------------------------
(* Properties of the ICO reader *)

IcoRun == op = "icon" /\ input.kind = "ico"

InN == Len(input.ents)

InTableEnd == HeaderSize + IconEntrySize * InN

\* where the payload of entry i starts in the input file
InPayloadStart(i) ==
    InTableEnd + SumSeq([j \in 1..(i - 1) |-> input.ents[j].image_size])

InEntryBad(i) ==
    input.ents[i].reserved # 0 \/ input.ents[i].planes \notin {0, 1}

\* a well-formed ICO stream: valid header, valid entries, contiguous payloads
InWellFormed ==
    /\ input.hdr.reserved = 0
    /\ input.hdr.type = 1
    /\ input.hdr.entries_count = InN
    /\ \A i \in 1..InN : ~InEntryBad(i)

HeaderStageDone == pc \notin {"ico_open", "read_header"}

\* C1: on a stream of at least 6 bytes the load reports the first failing
\* header check in the order reserved, cursor type, other type, entry count,
\* carrying the actual value of the field, whatever the other header fields
\* hold; and when a header check fails no directory entry has been read (the
\* stream stands right behind the header, the entry table is empty).
C1_HeaderChecksInOrder ==
    (IcoRun /\ input.cut >= HeaderSize /\ HeaderStageDone) =>
       LET h == input.hdr
       IN  /\ resource_header = h
           /\ h.reserved # 0 =>
                /\ pc = "failed"
                /\ err = [class |-> "invalid_argument",
                          what |-> "InvalidHeaderReserved", actual |-> h.reserved]
           /\ (h.reserved = 0 /\ h.type = 2) =>
                pc = "failed" /\ err.what = "WrongContainerType"
           /\ (h.reserved = 0 /\ h.type \notin {1, 2}) =>
                /\ pc = "failed"
                /\ err = [class |-> "invalid_argument",
                          what |-> "InvalidContainerType", actual |-> h.type]
           /\ (h.reserved = 0 /\ h.type = 1 /\ h.entries_count = 0) =>
                pc = "failed" /\ err.what = "NoImageEntries"
           /\ (h.reserved # 0 \/ h.type # 1 \/ h.entries_count = 0) =>
                entries = <<>> /\ images = <<>> /\ pos = HeaderSize
           /\ (h.reserved = 0 /\ h.type = 1 /\ h.entries_count # 0) =>
                err.what \notin {"InvalidHeaderReserved", "WrongContainerType",
                                 "InvalidContainerType", "NoImageEntries"}

\* a header whose three fields are all bad is reported for its reserved field
C1_Witness ==
    /\ IcoRun
    /\ pc = "failed"
    /\ input.hdr = [reserved |-> 258, type |-> 2, entries_count |-> 0]
    /\ input.cut > HeaderSize
    /\ err = [class |-> "invalid_argument", what |-> "InvalidHeaderReserved",
              actual |-> 258]

\* the truncation error of the stage at which a prefix of cut bytes runs out
TruncationAt(cut) ==
    IF cut < HeaderSize THEN "TruncatedHeader"
    ELSE IF cut < InTableEnd THEN "TruncatedEntryTable"
    ELSE "TruncatedImageData"

\* C2: loading a proper prefix of a well-formed ICO stream never yields an
\* icon: the load runs on until it fails, and it fails with the truncation
\* error (a runtime_error) of the stage the prefix ends in: TruncatedHeader
\* below 6 bytes, TruncatedEntryTable below 6 + 16n, TruncatedImageData below
\* the full length.
C2_ProperPrefixFailsTruncated ==
    (IcoRun /\ InWellFormed /\ input.cut < Len(input.full)) =>
       /\ ~constructed
       /\ pc \in {"ico_open", "read_header", "read_entries", "read_images", "failed"}
       /\ pc = "read_entries" => input.cut >= HeaderSize
       /\ pc = "read_images" =>
            /\ input.cut >= InTableEnd
            /\ next_entry <= Len(entries)
       /\ pc # "failed" => ENABLED Next
       /\ pc = "failed" =>
            err = [class |-> "runtime_error", what |-> TruncationAt(input.cut),
                   actual |-> 0]

\* a prefix that ends inside the payload of the second of two entries
C2_Witness ==
    /\ IcoRun
    /\ InWellFormed
    /\ InN = 2
    /\ input.cut > InPayloadStart(2)
    /\ input.cut < Len(input.full)
    /\ pc = "failed"
    /\ err.what = "TruncatedImageData"
    /\ Len(images) = 1

\* entry i of the input cannot be taken in: a bad field, or a payload the
\* file ends before
InEntryFails(i) ==
    InEntryBad(i) \/ InPayloadStart(i) + input.ents[i].image_size > input.cut

InFailing == {i \in 1..InN : InEntryFails(i)}

InFirstFailing == CHOOSE i \in InFailing : \A j \in InFailing : i <= j

\* the error the load must end with when entry i is the first that fails
InEntryError(i) ==
    IF input.ents[i].reserved # 0
    THEN [class |-> "invalid_argument", what |-> "InvalidEntryReserved",
          actual |-> input.ents[i].reserved]
    ELSE IF input.ents[i].planes \notin {0, 1}
    THEN [class |-> "invalid_argument", what |-> "InvalidEntryPlanes",
          actual |-> input.ents[i].planes]
    ELSE [class |-> "runtime_error", what |-> "TruncatedImageData", actual |-> 0]

\* C3: once the header is valid and the whole entry table is read, entries
\* are handled in file order: when the loop stands at entry k the payloads of
\* entries 1..k-1, and no others, have been read and the stream stands at the
\* payload of entry k; the load fails at the first entry in file order that
\* has a bad field or a short payload, with that entry's error (reserved
\* before planes before the payload read), and a bad field is reported before
\* any byte of that entry's payload is read.
C3_EntriesInFileOrder ==
    (IcoRun /\ GoodHeader(input.hdr) /\ input.hdr.entries_count = InN
       /\ input.cut >= InTableEnd /\ pc \notin {"ico_open", "read_header", "read_entries"}) =>
       /\ Len(images) = next_entry - 1
       /\ \A j \in 1..(next_entry - 1) : ~InEntryFails(j)
       /\ pc = "read_images" => pos = InPayloadStart(next_entry)
       /\ pc = "failed" =>
            /\ InFailing # {}
            /\ next_entry = InFirstFailing
            /\ err = InEntryError(InFirstFailing)
            /\ err.class = "invalid_argument" => pos = InPayloadStart(next_entry)
       /\ pc \in {"loaded", "serialized"} => InFailing = {}

\* the payload of entry 1 is cut short and entry 2 has bad fields: the
\* truncation of entry 1 is what is reported
C3_Witness ==
    /\ IcoRun
    /\ GoodHeader(input.hdr)
    /\ InN = 2
    /\ ~InEntryBad(1)
    /\ InEntryBad(2)
    /\ input.cut >= InTableEnd
    /\ pc = "failed"
    /\ err.what = "TruncatedImageData"
    /\ next_entry = 1

\* the resource entry the load must build for entry i of the input: the
\* entry's fields but its offset, and the ordinal i
InResourceEntry(i) ==
    [width         |-> input.ents[i].width,
     height        |-> input.ents[i].height,
     color_count   |-> input.ents[i].color_count,
     reserved      |-> input.ents[i].reserved,
     planes        |-> input.ents[i].planes,
     bit_count     |-> input.ents[i].bit_count,
     resource_size |-> input.ents[i].image_size,
     icon_id       |-> i]

IcoLoaded == IcoRun /\ pc \in {"loaded", "serialized"}

\* C4: a successful load of n entries holds exactly n blobs, blob i being
\* the imageSize_i bytes of the stream that start at 6 + 16n + the sizes of
\* the entries before i; the icon (header, resource entries, blobs) is
\* determined by the stream without its imageOffset fields, so two streams
\* that differ only in those fields load to the same icon.
C4_ImagesAreSequentialPayloads ==
    IcoLoaded =>
       /\ input.hdr.entries_count = InN
       /\ fs[IcoPath] = input.full
       /\ Len(images) = InN
       /\ \A i \in 1..InN :
            /\ Len(images[i]) = input.ents[i].image_size
            /\ images[i] = Slice(fs[IcoPath], InPayloadStart(i), input.ents[i].image_size)
            /\ images[i] = Payload(i, input.ents[i].image_size)
       /\ resource_header = input.hdr
       /\ resource_entries = [i \in 1..InN |-> InResourceEntry(i)]

\* two entries with payloads, stored offsets that point into the header
C4_Witness ==
    /\ IcoLoaded
    /\ InN = 2
    /\ input.ents[1].image_offset = 7
    /\ input.ents[2].image_offset = 14
    /\ Len(images) = 2
    /\ Len(images[1]) = 2
    /\ Len(images[2]) = 1

\* C5: a successful load of n entries holds n resource entries in file
\* order, entry i carrying iconId i, resourceSize = imageSize of directory
\* entry i and its six other fields unchanged; and the 16-bit counter that
\* numbers them equals the number of entries pushed all the way up to the
\* 65535 entries a header can declare, so no id is 0 and none repeats.
C5_ResourceEntriesNumbered ==
    /\ IcoLoaded =>
         /\ Len(resource_entries) = InN
         /\ \A i \in 1..InN : resource_entries[i] = InResourceEntry(i)
    /\ op = "ids" =>
         /\ icon_id = cv_i
         /\ cv_i <= cv_n
         /\ cv_i >= 1 => icon_id \in 1..U16Max
         /\ pc = "counted" <=> cv_i = cv_n

C5_Witness ==
    /\ IcoLoaded
    /\ Len(resource_entries) = 2
    /\ resource_entries[1].icon_id = 1
    /\ resource_entries[2].icon_id = 2
    /\ resource_entries[2].resource_size = 2

\* the ICO stream the icon was loaded from
LoadedStream == IF op = "from_bmp" THEN IcoBytes(bmp) ELSE fs[IcoPath]

----------------------------------------------------------------------------
(* Properties of from_bmp and of the bitmap loader *)

FbRun == op = "from_bmp" /\ input.kind \in {"bmp", "nobmp"}

\* what loading the BMP source gives (from_bmp never writes the source)
FbLoad == LoadFromImage(fs[BmpPath], NoBitmap)

\* the source loads as a bitmap the writer accepts
FbLoadable24 ==
    /\ FbLoad.err = NoErr
    /\ FbLoad.bmp.width > 0
    /\ FbLoad.bmp.height > 0
    /\ FbLoad.bmp.bitDepth = 24

\* the imageSize the writer must declare for a width and a height
IcoImageSize(w, h) == 40 + w * h * 4 + ((w + 31) \div 32) * 4 * h

\* the icon from_bmp must return, and the temporary file while it exists
FbIconShape ==
    LET w == FbLoad.bmp.width
        h == FbLoad.bmp.height
    IN  /\ pc \in {"ico_open", "read_header", "read_entries", "read_images", "fb_cleanup"} =>
             Len(fs[TempIcoPath]) = 6 + 16 + IcoImageSize(w, h)
        /\ pc \in {"loaded", "serialized"} =>
             /\ constructed
             /\ resource_header = [reserved |-> 0, type |-> 1, entries_count |-> 1]
             /\ Len(resource_entries) = 1
             /\ resource_entries[1] =
                  [width |-> w % 256, height |-> h % 256, color_count |-> 0,
                   reserved |-> 0, planes |-> 1, bit_count |-> 32,
                   resource_size |-> IcoImageSize(w, h), icon_id |-> 1]
             /\ Len(images) = 1
             /\ Len(images[1]) = IcoImageSize(w, h)

C8_NoTransientLeftBehind ==
    (FbRun /\ pc \in {"failed", "loaded", "serialized"}) =>
       IF FbLoad.err = NoErr
       THEN /\ fs[TempIcoPath] = Absent
            /\ pc = "failed" =>
                 err = IF ~FbLoadable24
                       THEN [class |-> "runtime_error",
                             what |-> "UnsupportedBitmapFormat", actual |-> 0]
                       ELSE [class |-> "runtime_error",
                             what |-> "DestinationUnavailable", actual |-> 0]
            /\ pc = "failed" => (~FbLoadable24 \/ ~dest_ok)
       ELSE /\ pc = "failed"
            /\ err = FbLoad.err
            /\ fs[TempIcoPath] = input.stale

\* the write stage fails on a path that held a file: nothing is left there
C8_Witness ==
    /\ FbRun
    /\ pc = "failed"
    /\ FbLoadable24
    /\ ~dest_ok
    /\ input.stale = StaleBytes
    /\ err.what = "DestinationUnavailable"
    /\ fs[TempIcoPath] = Absent

BmpRun == op = "bitmap" /\ input.kind = "bmp"

\* the first n bytes of on-disk row d of the input BMP
InDiskRow(d, n) == [j \in 1..n |-> DiskByte(d, j - 1)]

\* C9: on a complete uncompressed BMP of positive width the load records
\* height = |biHeight| and fills a buffer of width*height*bytesPerPixel bytes
\* top row first: row r is on-disk row height-1-r of a bottom-up file
\* (biHeight > 0) and on-disk row r of a top-down file (biHeight < 0),
\* without the row padding.
C9_TopRowFirstBothOrientations ==
    (BmpRun /\ pc # "bmp_load" /\ input.cut = Len(input.full)
       /\ input.p.bfType = BM /\ input.p.biCompression = 0 /\ input.p.biWidth > 0) =>
       LET h   == Abs(input.p.biHeight)
           raw == input.p.biWidth * (input.p.biBitCount \div 8)
       IN  /\ bmp.width = input.p.biWidth
           /\ bmp.height = h
           /\ bmp.bitDepth = input.p.biBitCount
           /\ Len(bmp.pixels) = h * raw
           /\ \A r \in 0..(h - 1) :
                Slice(bmp.pixels, r * raw, raw) =
                  InDiskRow(IF input.p.biHeight > 0 THEN h - 1 - r ELSE r, raw)

\* C10: the load of a BMP stream that ends early (inside the headers, or
\* before the last row of pixel data) does not report success.
C10_TruncatedBmpFails ==
    (BmpRun /\ pc # "bmp_load" /\ input.cut < Len(input.full)) => err # NoErr

----------------------------------------------------------------------------
(* Properties of the ICO writer *)

\* what loading the BMP source of a bitmap run gives (nothing writes the source)
BmpLoad == LoadFromImage(fs[BmpPath], NoBitmap)

\* saveToIco has been called on the bitmap object and has returned or thrown
SaveAttempted ==
    /\ op = "bitmap"
    /\ pc \in {"bmp_saved", "failed"}
    /\ input.kind = "new" \/ (input.kind = "bmp" /\ BmpLoad.err = NoErr)

\* the file system a bitmap run started from
BmpRunFiles ==
    [p \in Paths |->
        IF p = OutPath THEN input.stale
        ELSE IF p = BmpPath /\ input.kind = "bmp" THEN Take(input.full, input.cut)
        ELSE NoFiles[p]]

\* saveToIco has returned and the file it wrote is still in place
SaveDone ==
    \/ op = "bitmap" /\ pc = "bmp_saved"
    \/ op = "from_bmp"
         /\ pc \in {"ico_open", "read_header", "read_entries", "read_images", "fb_cleanup"}

SavedFile == IF op = "bitmap" THEN fs[OutPath] ELSE fs[TempIcoPath]

\* the bitmap object satisfies the writer's precondition
Writable24 ==
    /\ bmp.width > 0
    /\ bmp.height > 0
    /\ bmp.bitDepth = 24
    /\ Len(bmp.pixels) = bmp.width * bmp.height * 3

\* C11: for a bitmap with width > 0, height > 0, bitDepth 24 and a buffer of
\* width*height*3 bytes, saveToIco to an openable destination succeeds and the
\* file is exactly: header (0, 1, 1); one 16-byte entry (width mod 256,
\* height mod 256, 0, 0, planes 1, bitCount 32, imageSize = 40 + w*h*4 +
\* ((w+31)/32)*4*h, imageOffset 22); a 40-byte info header with biWidth = w,
\* biHeight = 2h, biBitCount 32, compression 0; the pixel rows from buffer
\* row h-1 down to row 0, each pixel as b, g, r, 255; then ((w+31)/32)*4*h
\* zero bytes.
C11_WriterByteStream ==
    /\ (SaveAttempted /\ pc = "failed" /\ dest_ok) => ~Writable24
    /\ (SaveDone /\ Writable24) =>
         LET f    == SavedFile
             w    == bmp.width
             h    == bmp.height
             mask == ((w + 31) \div 32) * 4 * h
         IN  /\ Len(f) = 6 + 16 + 40 + w * h * 4 + mask
             /\ RdU16(f, 0) = 0 /\ RdU16(f, 2) = 1 /\ RdU16(f, 4) = 1
             /\ f[7] = w % 256 /\ f[8] = h % 256 /\ f[9] = 0 /\ f[10] = 0
             /\ RdU16(f, 10) = 1 /\ RdU16(f, 12) = 32
             /\ RdU32(f, 14) = 40 + w * h * 4 + mask
             /\ RdU32(f, 18) = 22
             /\ RdU32(f, 22) = 40
             /\ RdI32(f, 26) = w /\ RdI32(f, 30) = 2 * h
             /\ RdU16(f, 36) = 32 /\ RdU32(f, 38) = 0
             /\ \A k \in 0..(h - 1), x \in 0..(w - 1) :
                  LET at  == 62 + (k * w + x) * 4
                      src == ((h - 1 - k) * w + x) * 3
                  IN  /\ f[at + 1] = bmp.pixels[src + 1]
                      /\ f[at + 2] = bmp.pixels[src + 2]
                      /\ f[at + 3] = bmp.pixels[src + 3]
                      /\ f[at + 4] = 255
             /\ \A j \in (62 + w * h * 4 + 1)..Len(f) : f[j] = 0

\* a 2x2 bitmap whose rows differ has been written: 62 + 16 + 8 bytes, the
\* first pixel written is the first pixel of buffer row 1
C11_Witness ==
    /\ op = "bitmap"
    /\ pc = "bmp_saved"
    /\ bmp.width = 2 /\ bmp.height = 2 /\ bmp.bitDepth = 24
    /\ Slice(bmp.pixels, 0, 3) # Slice(bmp.pixels, 6, 3)
    /\ Len(fs[OutPath]) = 86
    /\ Slice(fs[OutPath], 62, 3) = Slice(bmp.pixels, 6, 3)

\* C12: saveToIco on a bitmap with width <= 0, height <= 0 or bitDepth # 24,
\* a never loaded object included, fails with UnsupportedBitmapFormat whether
\* or not the destination could be opened, and leaves every file, the
\* destination included, as it was: not created, not truncated, not written.
C12_PreconditionBeforeOpen ==
    (SaveAttempted /\ (bmp.width <= 0 \/ bmp.height <= 0 \/ bmp.bitDepth # 24)) =>
       /\ pc = "failed"
       /\ err.what = "UnsupportedBitmapFormat"
       /\ fs[OutPath] = input.stale
       /\ fs = BmpRunFiles

\* a never loaded bitmap is refused although the destination exists and can
\* be opened: the file there keeps its bytes
C12_Witness ==
    /\ op = "bitmap"
    /\ input.kind = "new"
    /\ pc = "failed"
    /\ dest_ok
    /\ input.stale = StaleBytes
    /\ bmp = NoBitmap
    /\ err.what = "UnsupportedBitmapFormat"
    /\ fs[OutPath] = StaleBytes

\* C13: the load of a stream that holds both headers in full fails with
\* NotABitmap when bfType is not "BM", whatever biCompression holds, and
\* otherwise with UnsupportedCompression when biCompression is not 0; a
\* source that cannot be opened fails with SourceUnavailable; and in all
\* three cases the bitmap object keeps the width, height, bitDepth and pixel
\* buffer it had before the call.
C13_SignatureThenCompression ==
    /\ (op = "bitmap" /\ input.kind = "missing" /\ pc # "bmp_load") =>
         /\ pc = "failed"
         /\ err.what = "SourceUnavailable"
         /\ bmp = input.prior
    /\ (BmpRun /\ pc # "bmp_load" /\ input.cut >= FileHeaderSize + InfoHeaderSize) =>
         /\ input.p.bfType # BM =>
              /\ pc = "failed"
              /\ err.what = "NotABitmap"
              /\ bmp = input.prior
         /\ (input.p.bfType = BM /\ input.p.biCompression # 0) =>
              /\ pc = "failed"
              /\ err.what = "UnsupportedCompression"
              /\ bmp = input.prior
         /\ (input.p.bfType = BM /\ input.p.biCompression = 0) =>
              err.what \notin {"SourceUnavailable", "NotABitmap", "UnsupportedCompression"}

\* a file with a wrong signature and a compression is refused for its
\* signature, and the bitmap loaded before is still in the object
C13_Witness ==
    /\ BmpRun
    /\ pc = "failed"
    /\ input.cut = Len(input.full)
    /\ input.p.bfType # BM
    /\ input.p.biCompression # 0
    /\ input.p.biWidth = 2
    /\ input.prior = PriorBitmap
    /\ err.what = "NotABitmap"
    /\ bmp = PriorBitmap

----------------------------------------------------------------------------
(* Error classes *)

\* the failures whose cause is the caller's: a path that cannot be opened, a
\* field of a complete-length input that holds a wrong value
UsageCauses ==
    {"SourceUnavailable", "WrongContainerType", "InvalidContainerType",
     "InvalidHeaderReserved", "InvalidEntryReserved", "InvalidEntryPlanes"}

\* a BMP source of complete length whose signature is not "BM" was refused
WrongSignatureRefused ==
    /\ op \in {"bitmap", "from_bmp"}
    /\ input.kind = "bmp"
    /\ input.cut = Len(input.full)
    /\ input.p.bfType # BM
    /\ pc = "failed"

\* the failures whose cause is a read that ran short or a destination that
\* cannot be written
IOCauses ==
    {"TruncatedHeader", "TruncatedEntryTable", "TruncatedImageData",
     "DestinationUnavailable"}

\* C14: every failure of the ICO load, the bitmap load, saveToIco and from_bmp
\* is an invalid_argument or a runtime_error; an unopenable source and a wrong
\* field value (BMP signature, ICO type, header or entry reserved, planes) are
\* invalid_argument, a short read and an unwritable destination are
\* runtime_error.
C14_ErrorClassesByCause ==
    pc = "failed" =>
       /\ err.class \in {"invalid_argument", "runtime_error"}
       /\ err.what \in UsageCauses => err.class = "invalid_argument"
       /\ WrongSignatureRefused => err.class = "invalid_argument"
       /\ err.what \in IOCauses => err.class = "runtime_error"

----------------------------------------------------------------------------
(* Serialization round trip *)

\* the second parse has ended, with an icon or with an exception
ReparseEnded == op = "reparse" /\ pc \in {"loaded", "serialized", "failed"}

\* the resource header of the converted icon has been serialized
HeaderSerialized == (FbRun /\ pc = "serialized") \/ op = "reparse"

\* the icon whose resource header header_out holds
SerializedIcon ==
    IF op = "reparse" THEN first
    ELSE [header |-> resource_header, entries |-> resource_entries]

SameGeometry(a, b) ==
    /\ a.width = b.width
    /\ a.height = b.height
    /\ a.color_count = b.color_count
    /\ a.planes = b.planes
    /\ a.bit_count = b.bit_count

----------------------------------------------------------------------------
(* Files from_bmp touches *)

\* the file system a from_bmp run started from
FbRunFiles ==
    [p \in Paths |->
        IF p = TempIcoPath THEN input.stale
        ELSE IF p = BmpPath /\ input.kind = "bmp" THEN Take(input.full, input.cut)
        ELSE NoFiles[p]]

\* from_bmp has returned or thrown
FbEnded == FbRun /\ pc \in {"failed", "loaded", "serialized"}

\* C16: at every point of from_bmp every file but <bmp_path>.temp.ico, the
\* BMP source included, is as it was before the call; when the call has
\* ended after a failed load the temporary path is as it was too (a file
\* there survives), and when it has ended in any other way no file is at
\* that path, even if one was there before the call.
C16_OnlyTransientTouched ==
    /\ FbRun => \A p \in Paths \ {TempIcoPath} : fs[p] = FbRunFiles[p]
    /\ (FbRun /\ pc = "fb_save") => fs = FbRunFiles
    /\ (FbEnded /\ FbLoad.err # NoErr) => fs = FbRunFiles
    /\ (FbEnded /\ FbLoad.err = NoErr) => fs[TempIcoPath] = Absent

\* a conversion that found a file at the temporary path has returned its
\* icon: that file is gone, the source and the unrelated file are intact
C16_Witness ==
    /\ FbRun
    /\ pc = "loaded"
    /\ input.stale = StaleBytes
    /\ fs[TempIcoPath] = Absent
    /\ fs[BmpPath] = input.full
    /\ fs[OtherPath] = OtherBytes

====
